---- MODULE Spec2Model ----
(***************************************************************************)
(* Model of scripts/fix-lint.py: a catalog of textual fixes applied in     *)
(* place to the files of a source tree.                                    *)
(*                                                                         *)
(* A file's text is a sequence of tokens.  A token is a piece of text that *)
(* the catalog's patterns never match part of: either a single character   *)
(* (the permission files) or one of the literal segments the catalog's old *)
(* and new texts are built from.  Matching on token sequences is then the  *)
(* same as Python's matching on the concatenated characters.               *)
(***************************************************************************)
EXTENDS Integers, Sequences, FiniteSets

\* ------------------------------------------------------------------ bounds

\* Longest generated content of a permission file, in characters.
MaxDigits == 7
\* Longest generated content of a file of literal replacements, in tokens.
MaxLen == 4
\* Longest generated content of a file of declarations to mark, in tokens.
MaxMarkLen == 3
\* Most pieces a generated handler test file is concatenated from.
MaxPieces == 3
\* Longest generated content of the varied file of a tree the whole tool runs on.
MaxTreeLen == 2
\* Most times one descriptor is applied in a row to the same file.
MaxApply == 2
\* Most I/O failures (each followed by a re-run) in one history.
MaxAborts == 1

\* ------------------------------------------------------------------ tokens

NL == "\n"
SP == " "
\* The text remove_unused_code puts in front of a line, less its newline.
Marker == "\t//nolint:unused // Reserved for future use"
\* The text remove_unused_code looks for in a line before marking it.
NoLint == "//nolint:unused"
FuncKw == "func "
VarKw == "var "

\* Segments of the handler-nil pattern and of its replacement.
IfNil == "if handler == nil {"
TError == "t.Error("
TFatal == "t.Fatal("
Quote == "\""
ShouldMsg == "should return a handler\""
RParen == ")"

\* ------------------------------------------------------------------ catalog

NilFix(f) ==
  [cat |-> 1, file |-> f, kind |-> "regex", old |-> <<>>, new |-> <<>>, names |-> <<>>]

PermFix(f) ==
  [cat |-> 2, file |-> f, kind |-> "literal",
   old |-> <<"0", "6", "4", "4">>, new |-> <<"0", "6", "0", "0">>, names |-> <<>>]

BranchHead == "if err := os.MkdirAll(dir, 0750); err != nil {\n\t\t\t"
BranchTail == "\n\t\t}"

EmptyBranchFix ==
  [cat |-> 3, file |-> "internal/storage/config.go", kind |-> "literal",
   old |-> <<BranchHead, "// Log warning but don't fail - factory will handle this", BranchTail>>,
   new |-> <<BranchHead,
             "log.Printf(\"warning: failed to create SQLite directory %s: %v (factory will handle this)\", dir, err)",
             BranchTail>>,
   names |-> <<>>]

AssignFix(f, old, new) ==
  [cat |-> 4, file |-> f, kind |-> "guarded", old |-> old, new |-> new, names |-> <<>>]

TransportBlock ==
  "\t\ttransport := &mcp.StdioTransport{}\n\t\tif transport == nil {\n\t\t\tt.Fatal(\"transport is nil\")\n\t\t}"
ListCall == " handler.HandleListBranches(ctx, req, EmptyRequest{})"
Tab4 == "\t\t\t\t"

UnusedAssignmentFixes ==
  << AssignFix("internal/server/handlers/branches_test.go",
               <<"\t", "_, listResp, _ :=", ListCall>>,
               <<"\t", "_, _, _ =", ListCall>>),
     AssignFix("cmd/server/main_test.go",
               <<TransportBlock>>,
               <<TransportBlock, "\n\t\t_ = transport // Used for nil check only">>),
     AssignFix("internal/integration/synthesizer.go",
               <<Tab4, "hasCausal = true">>,
               <<Tab4, "_ = hasCausal // Will be used in future enhancements">>),
     AssignFix("internal/integration/synthesizer.go",
               <<Tab4, "hasTemporal = true">>,
               <<Tab4, "_ = hasTemporal // Will be used in future enhancements">>),
     AssignFix("internal/metacognition/unknown_unknowns.go",
               <<"\t", "severity := 0.7">>,
               <<"\t", "_ = 0.7 // severity - reserved for future severity scoring">>) >>

MarkFix(f, names) ==
  [cat |-> 5, file |-> f, kind |-> "annotate", old |-> <<>>, new |-> <<>>, names |-> names]

UnusedItems ==
  << MarkFix("internal/integration/evidence_pipeline.go",
             <<"_calculateScoreAdjustment", "_evidenceRelatesToOption", "toLower", "contains">>),
     MarkFix("internal/storage/sqlite.go",
             <<"_insightCounter", "_validationCounter", "_relationshipCounter">>),
     MarkFix("internal/validation/logic.go",
             <<"_existentials", "_extractAtomicPropositions">>),
     MarkFix("internal/modes/error_recovery_test.go",
             <<"recentBranchIDs">>) >>

NilCheckFixes ==
  << NilFix("internal/server/handlers/abductive_test.go"),
     NilFix("internal/server/handlers/backtracking_test.go"),
     NilFix("internal/server/handlers/case_based_test.go"),
     NilFix("internal/server/handlers/dual_process_test.go"),
     NilFix("internal/server/handlers/symbolic_test.go"),
     NilFix("internal/server/handlers/unknown_unknowns_test.go") >>

PermissionFixes ==
  << PermFix("internal/config/config_test.go"),
     PermFix("internal/storage/sqlite_test.go") >>

\* The descriptors in the order main runs them.
Fixes ==
  NilCheckFixes \o PermissionFixes \o <<EmptyBranchFix>> \o UnusedAssignmentFixes \o UnusedItems

NFixes == Len(Fixes)
Descriptors == 1..NFixes
Categories == {Fixes[d].cat : d \in Descriptors}
Files == {Fixes[d].file : d \in Descriptors}
InCategory(c) == {d \in Descriptors : Fixes[d].cat = c}

\* ------------------------------------------------------------------ text

Range(s) == {s[i] : i \in 1..Len(s)}
Max(S) == CHOOSE x \in S : \A y \in S : y <= x
Min(S) == CHOOSE x \in S : \A y \in S : x <= y

\* old occurs in s at index i.
MatchAt(s, i, old) ==
  i + Len(old) - 1 <= Len(s) /\ SubSeq(s, i, i + Len(old) - 1) = old

\* Python's `old in content`, for a non-empty old.
Contains(s, old) == \E i \in 1..Len(s) : MatchAt(s, i, old)

RECURSIVE ReplaceFrom(_, _, _, _)
ReplaceFrom(s, i, old, new) ==
  IF i > Len(s) THEN <<>>
  ELSE IF MatchAt(s, i, old) THEN new \o ReplaceFrom(s, i + Len(old), old, new)
  ELSE <<s[i]>> \o ReplaceFrom(s, i + 1, old, new)

\* A plausible slip: content.replace(old, new, 1).
RECURSIVE ReplaceFirstFrom(_, _, _, _)
ReplaceFirstFrom(s, i, old, new) ==
  IF i > Len(s) THEN <<>>
  ELSE IF MatchAt(s, i, old) THEN new \o SubSeq(s, i + Len(old), Len(s))
  ELSE <<s[i]>> \o ReplaceFirstFrom(s, i + 1, old, new)

ReplaceFirst(s, old, new) == ReplaceFirstFrom(s, 1, old, new)

\* Python's content.replace(old, new): every occurrence, left to right, none overlapping.
Replace(s, old, new) == ReplaceFrom(s, 1, old, new)

\* The regular expression's \s, on tokens.
IsSpace(t) == t \in {SP, NL}

\* The first index at or after i that holds no white space.
RECURSIVE SkipSpace(_, _)
SkipSpace(s, i) == IF i <= Len(s) /\ IsSpace(s[i]) THEN SkipSpace(s, i + 1) ELSE i

\* The indices at which a match of
\*   (if handler == nil \{\s+)t\.Error\((".*should return a handler")\)
\* that starts at i may end: `.` matches no newline.
MatchEnds(s, i) ==
  IF s[i] # IfNil THEN {}
  ELSE LET k == SkipSpace(s, i + 1) IN
       IF k = i + 1 \/ k + 1 > Len(s) THEN {}
       ELSE IF s[k] # TError \/ s[k + 1] # Quote THEN {}
       ELSE {e \in (k + 3)..Len(s) :
               /\ s[e] = RParen
               /\ s[e - 1] = ShouldMsg
               /\ \A m \in (k + 2)..(e - 2) : s[m] # NL}

RECURSIVE SubFrom(_, _)
SubFrom(s, i) ==
  IF i > Len(s) THEN <<>>
  ELSE LET ends == MatchEnds(s, i) IN
       IF ends = {} THEN <<s[i]>> \o SubFrom(s, i + 1)
       ELSE LET e == Max(ends)
                k == SkipSpace(s, i + 1)
            IN SubSeq(s, i, k - 1) \o <<TFatal>> \o SubSeq(s, k + 1, e - 1)
                 \o <<RParen>> \o SubFrom(s, e + 1)

\* re.sub(pattern, r'\1t.Fatal(\2)', content): `.*` is greedy, matches do not overlap.
ReSub(s) == SubFrom(s, 1)

\* f.readlines(): the text cut after each newline.
RECURSIVE ReadLines(_)
ReadLines(s) ==
  IF s = <<>> THEN <<>>
  ELSE LET nls == {j \in 1..Len(s) : s[j] = NL} IN
       IF nls = {} THEN <<s>>
       ELSE <<SubSeq(s, 1, Min(nls))>> \o ReadLines(SubSeq(s, Min(nls) + 1, Len(s)))

\* f.writelines(lines): the lines one after the other.
RECURSIVE WriteLines(_)
WriteLines(lines) ==
  IF lines = <<>> THEN <<>> ELSE Head(lines) \o WriteLines(Tail(lines))

InLine(t, line) == t \in Range(line)
HasNoLint(line) == InLine(NoLint, line) \/ InLine(Marker, line)

\* name in line and ("func " in line or "var " in line or name + " " in line)
Declares(name, line) ==
  /\ InLine(name, line)
  /\ InLine(FuncKw, line) \/ InLine(VarKw, line) \/ Contains(line, <<name, SP>>)

\* The inner loop over the names: cur is lines[i], line the line as read.
RECURSIVE MarkLineFrom(_, _, _, _)
MarkLineFrom(names, n, line, cur) ==
  IF n > Len(names) THEN cur
  ELSE MarkLineFrom(names, n + 1, line,
         IF Declares(names[n], line) /\ ~HasNoLint(line)
         THEN <<Marker, NL>> \o line ELSE cur)

\* A plausible slip: the marker is put in front of lines[i], not of the line as read.
RECURSIVE MarkLineStacking(_, _, _, _)
MarkLineStacking(names, n, line, cur) ==
  IF n > Len(names) THEN cur
  ELSE MarkLineStacking(names, n + 1, line,
         IF Declares(names[n], line) /\ ~HasNoLint(line)
         THEN <<Marker, NL>> \o cur ELSE cur)

MarkLineStacked(names, line) == MarkLineStacking(names, 1, line, line)

\* lines[i] after the inner loop.
MarkLine(names, line) == MarkLineFrom(names, 1, line, line)

\* The names the inner loop prints for one line, in order.
MarkedNames(names, line) ==
  SelectSeq(names, LAMBDA nm : Declares(nm, line) /\ ~HasNoLint(line))

Annotate(names, s) ==
  LET lines == ReadLines(s) IN
  WriteLines([i \in 1..Len(lines) |-> MarkLine(names, lines[i])])

\* ------------------------------------------------------------------ state

VARIABLES
  fs,      \* the tree: for each file the catalog names, whether it exists and its text
  fs0,     \* the tree the first run started on
  writes,  \* for each file, how many times it was opened for writing
  out,     \* the report lines printed by the running process, in order
  ctl      \* where the driver is (its shape depends on the driver)

vars == <<fs, fs0, writes, out, ctl>>

NoFile == [exists |-> FALSE, text |-> <<>>]
FileOf(text) == [exists |-> TRUE, text |-> text]

\* A plausible slip: the existence check left out (open(path, 'w') creates the file).
ExistsAlways(tree, f) == TRUE

\* os.path.exists(file_path)
Exists(tree, f) == tree[f].exists

\* A plausible slip: the text read when the run started is used again.
ReadFileCached(tree, f) == fs0[f].text

\* with open(file_path, 'r') as f: content = f.read()
ReadFile(tree, f) == tree[f].text

Line(msg, f, name) == [msg |-> msg, file |-> f, name |-> name]

\* One iteration of each function's loop on a file that exists: the text it
\* leaves, whether it opens the file for writing, and what it prints.
NilPointerCheck(fix, text) ==
  [text |-> ReSub(text), write |-> TRUE, lines |-> <<Line("Fixed", fix.file, "")>>]

FilePermission(fix, text) ==
  [text |-> Replace(text, fix.old, fix.new), write |-> TRUE,
   lines |-> <<Line("Fixed permissions", fix.file, "")>>]

EmptyBranch(fix, text) ==
  [text |-> Replace(text, fix.old, fix.new), write |-> TRUE,
   lines |-> <<Line("Fixed empty branch", fix.file, "")>>]

UnusedAssignment(fix, text) ==
  IF Contains(text, fix.old)
  THEN [text |-> Replace(text, fix.old, fix.new), write |-> TRUE,
        lines |-> <<Line("Fixed unused assignment", fix.file, "")>>]
  ELSE [text |-> text, write |-> FALSE, lines |-> <<>>]

UnusedCode(fix, text) ==
  LET lines == ReadLines(text)
      marked == WriteLines([i \in 1..Len(lines) |-> MarkedNames(fix.names, lines[i])])
  IN [text |-> Annotate(fix.names, text), write |-> TRUE,
      lines |-> [i \in 1..Len(marked) |-> Line("Marked unused", fix.file, marked[i])]]

ApplyFix(fix, text) ==
  CASE fix.cat = 1 -> NilPointerCheck(fix, text)
    [] fix.cat = 2 -> FilePermission(fix, text)
    [] fix.cat = 3 -> EmptyBranch(fix, text)
    [] fix.cat = 4 -> UnusedAssignment(fix, text)
    [] fix.cat = 5 -> UnusedCode(fix, text)

\* What descriptor d does to a tree.
Effect(d, tree) ==
  LET fix == Fixes[d]
      f == fix.file
  IN IF ~Exists(tree, f) THEN [tree |-> tree, wrote |-> FALSE, lines |-> <<>>]
     ELSE LET r == ApplyFix(fix, ReadFile(tree, f)) IN
          [tree |-> IF r.write THEN [tree EXCEPT ![f] = FileOf(r.text)] ELSE tree,
           wrote |-> r.write, lines |-> r.lines]

Step(d) ==
  LET e == Effect(d, fs) IN
  /\ fs' = e.tree
  /\ writes' = IF e.wrote THEN [writes EXCEPT ![Fixes[d].file] = @ + 1] ELSE writes
  /\ out' = out \o e.lines
  /\ fs0' = fs0

\* The descriptor main comes to after d: `continue` goes on with the loop,
\* fix_empty_branch's `return` goes on with main's next call.
NextAfter(d) ==
  IF Fixes[d].cat = 3
  THEN Min({x \in Descriptors : Fixes[x].cat > 3} \cup {NFixes + 1})
  ELSE d + 1

\* main, from descriptor d on, as a function of the tree.
RECURSIVE RunFrom(_, _)
RunFrom(d, tree) ==
  IF d > NFixes THEN tree ELSE RunFrom(NextAfter(d), Effect(d, tree).tree)

CatalogRun(tree) == RunFrom(1, tree)

\* ------------------------------------------------------------------ inputs

SeqsUpTo(A, n) == UNION {[1..k -> A] : k \in 0..n}

Targets(f) == {d \in Descriptors : Fixes[d].file = f}
CatOf(f) == Fixes[CHOOSE d \in Targets(f) : TRUE].cat

\* The tokens a generated text of file f is made of.
Alphabet(f) ==
  UNION {Range(Fixes[d].old) \cup Range(Fixes[d].new) \cup Range(Fixes[d].names) : d \in Targets(f)}
    \cup (IF CatOf(f) = 5 THEN {FuncKw, VarKw, SP, NL, NoLint} ELSE {})

\* The pieces a generated handler test file is made of.
HandlerPieces ==
  { <<IfNil, SP, TError, Quote>>,
    <<IfNil, NL, SP, TFatal, Quote>>,
    <<IfNil, TError, Quote>>,
    <<ShouldMsg, RParen>>,
    <<NL>> }

Contents(f, n) ==
  IF CatOf(f) = 1 THEN {WriteLines(p) : p \in SeqsUpTo(HandlerPieces, n)}
  ELSE SeqsUpTo(Alphabet(f), n)

\* "mode: 0644, dir: 0644"
Example ==
  <<"m", "o", "d", "e", ":", " ", "0", "6", "4", "4", ",", " ",
    "d", "i", "r", ":", " ", "0", "6", "4", "4">>

RECURSIVE JoinOlds(_)
JoinOlds(ds) ==
  IF ds = {} THEN <<>>
  ELSE LET d == Min(ds) IN Fixes[d].old \o <<NL>> \o JoinOlds(ds \ {d})

\* The text of file f that the catalog was written for.
Seed(f) ==
  CASE CatOf(f) = 1 -> <<IfNil, NL, SP, TError, Quote, ShouldMsg, RParen, NL>>
    [] CatOf(f) = 2 -> Example
    [] CatOf(f) \in {3, 4} -> JoinOlds(Targets(f))
    [] CatOf(f) = 5 ->
         LET names == Fixes[CHOOSE d \in Targets(f) : TRUE].names IN
         <<FuncKw, names[1], NL, names[Len(names)], SP, NL>>

TreeWith(f, file, seeded) ==
  [g \in Files |-> IF g = f THEN file ELSE IF seeded THEN FileOf(Seed(g)) ELSE NoFile]

\* One file missing or holding any generated text; the others all missing,
\* or all holding the text the catalog was written for.
Trees ==
  UNION {{TreeWith(f, file, seeded) :
            file \in {NoFile, FileOf(Seed(f))} \cup {FileOf(c) : c \in Contents(f, MaxTreeLen)},
            seeded \in BOOLEAN} : f \in Files}

FnLen(f) ==
  CASE CatOf(f) = 1 -> MaxPieces
    [] CatOf(f) = 2 -> MaxDigits
    [] CatOf(f) = 5 -> MaxMarkLen
    [] OTHER -> MaxLen

\* ------------------------------------------------------------------ main

Init ==
  /\ fs0 \in Trees
  /\ fs = fs0
  /\ writes = [f \in Files |-> 0]
  /\ out = <<>>
  /\ ctl = [mode |-> "main", next |-> 1, aborts |-> 0]

\* One iteration of the loop of main's call number c.
RunCategory(c) ==
  /\ ctl.next <= NFixes
  /\ Fixes[ctl.next].cat = c
  /\ Step(ctl.next)
  /\ ctl' = [ctl EXCEPT !.next = NextAfter(ctl.next)]

FixNilPointerChecks == ctl.mode = "main" /\ RunCategory(1)
FixFilePermissions == ctl.mode = "main" /\ RunCategory(2)
FixEmptyBranch == ctl.mode = "main" /\ RunCategory(3)
FixUnusedAssignments == ctl.mode = "main" /\ RunCategory(4)
RemoveUnusedCode == ctl.mode = "main" /\ RunCategory(5)

Next ==
  \/ FixNilPointerChecks
  \/ FixFilePermissions
  \/ FixEmptyBranch
  \/ FixUnusedAssignments
  \/ RemoveUnusedCode

Spec == Init /\ [][Next]_vars

Done == ctl.mode = "main" /\ ctl.next > NFixes

\* ------------------------------------------------------------------ re-run

\* open() or read() of the next descriptor's file raises: the process ends
\* with the descriptors before it processed.
IOFailure ==
  /\ ctl.mode = "main"
  /\ ctl.next <= NFixes
  /\ ctl.aborts < MaxAborts
  /\ Exists(fs, Fixes[ctl.next].file)
  /\ ctl' = [ctl EXCEPT !.mode = "failed", !.aborts = @ + 1]
  /\ UNCHANGED <<fs, fs0, writes, out>>

\* The operator runs the whole tool again on the tree as it is.
Rerun ==
  /\ ctl.mode = "failed"
  /\ ctl' = [ctl EXCEPT !.mode = "main", !.next = 1]
  /\ out' = <<>>
  /\ UNCHANGED <<fs, fs0, writes>>

NextRerun == Next \/ IOFailure \/ Rerun

SpecRerun == Init /\ [][NextRerun]_vars

\* ------------------------------------------------------------------ any order

OrderTrees ==
  UNION {{TreeWith(f, file, FALSE) :
            file \in {FileOf(Seed(f))} \cup
                     (IF Cardinality(Targets(f)) > 1
                      THEN {FileOf(c) : c \in Contents(f, MaxTreeLen)} ELSE {})} : f \in Files}

InitOrder ==
  /\ fs0 \in OrderTrees
  /\ fs = fs0
  /\ writes = [f \in Files |-> 0]
  /\ out = <<>>
  /\ ctl = [mode |-> "order", left |-> Categories, todo |-> {}]

\* main's calls in any order.
StartCategory ==
  /\ ctl.mode = "order"
  /\ ctl.todo = {}
  /\ \E c \in ctl.left : ctl' = [ctl EXCEPT !.left = @ \ {c}, !.todo = InCategory(c)]
  /\ UNCHANGED <<fs, fs0, writes, out>>

\* The descriptors of one call in any order.
RunAny ==
  /\ ctl.mode = "order"
  /\ \E d \in ctl.todo :
       /\ Step(d)
       /\ ctl' = [ctl EXCEPT !.todo = @ \ {d}]

NextOrder == StartCategory \/ RunAny

SpecOrder == InitOrder /\ [][NextOrder]_vars

\* ------------------------------------------------------------------ one descriptor

InitFn ==
  /\ \E d \in Descriptors :
       /\ ctl = [mode |-> "repeat", desc |-> d, napp |-> 0]
       /\ \E c \in Contents(Fixes[d].file, FnLen(Fixes[d].file)) \cup {Seed(Fixes[d].file)} :
            fs0 = TreeWith(Fixes[d].file, FileOf(c), FALSE)
  /\ fs = fs0
  /\ writes = [f \in Files |-> 0]
  /\ out = <<>>

\* The body of the loop for one descriptor, run on the file once more.
Reapply ==
  /\ ctl.mode = "repeat"
  /\ ctl.napp < MaxApply
  /\ Step(ctl.desc)
  /\ ctl' = [ctl EXCEPT !.napp = @ + 1]

SpecFn == InitFn /\ [][Reapply]_vars

\* ------------------------------------------------------------------ claims

Repeating == ctl.mode = "repeat"
TheFix == Fixes[ctl.desc]
TextOf(tree) == tree[TheFix.file].text

\* C1: applying a LiteralReplace or RegexReplace descriptor of the catalog to
\* the result of its own application changes nothing: once a descriptor has
\* been applied to a file, applying it again leaves the tree as it is.
C1_ReplaceIdempotent ==
  [][(Repeating /\ ctl.napp >= 1 /\ TheFix.kind \in {"literal", "regex"}) => fs' = fs]_vars

\* C2: running remove_unused_code on a file it has already run on inserts no
\* further marker line: the file after the second run equals the file after
\* the first.
C2_AnnotateIdempotent ==
  [][(Repeating /\ ctl.napp >= 1 /\ TheFix.kind = "annotate") => fs' = fs]_vars

\* C3: a descriptor whose transformation leaves a file's content as it was
\* read does not write the file: the write counter of a file moves only in a
\* step that changes the file's content.
C3_WriteOnlyOnChange ==
  [][\A f \in Files : fs'[f] = fs[f] => writes'[f] = writes[f]]_vars

\* C4: a descriptor whose target file does not exist creates no file, changes
\* no file, writes nothing, prints nothing, raises nothing, and main goes on
\* with the descriptor that follows it in the catalog, skipping none.
C4_MissingFileSkipped ==
  [][(ctl.mode = "main" /\ ctl.next <= NFixes /\ ~fs[Fixes[ctl.next].file].exists)
        => /\ fs' = fs
           /\ writes' = writes
           /\ out' = out
           /\ ctl' = [ctl EXCEPT !.next = @ + 1]]_vars

\* C4's case: a run that has finished, in which a descriptor's file was and is
\* missing and a later descriptor changed its file.
C4_Witness ==
  /\ Done
  /\ \E d1, d2 \in Descriptors :
       /\ d1 < d2
       /\ ~fs0[Fixes[d1].file].exists
       /\ ~fs[Fixes[d1].file].exists
       /\ fs[Fixes[d2].file] # fs0[Fixes[d2].file]

\* C5: a run aborted by an I/O failure after any prefix of the descriptors,
\* followed by a run of the whole tool to completion, leaves every file with
\* the content a single uninterrupted run on the original tree gives it.
C5_RerunSafe ==
  (Done /\ ctl.aborts > 0) => fs = CatalogRun(fs0)

\* The descriptors that have run, in the any-order driver.
Ran == {d \in Descriptors : Fixes[d].cat \notin ctl.left /\ d \notin ctl.todo}

RECURSIVE RunOnly(_, _, _)
RunOnly(ds, d, tree) ==
  IF d > NFixes THEN tree
  ELSE RunOnly(ds, d + 1, IF d \in ds THEN Effect(d, tree).tree ELSE tree)

\* C6: in whatever order main's five calls are made and the descriptors of a
\* call are processed, every file ends with the content the catalog's own
\* order gives it; and at every point on the way the tree is the one that the
\* descriptors processed so far give in the catalog's order.
C6_OrderIndependent ==
  ctl.mode = "order" =>
    /\ fs = RunOnly(Ran, 1, fs0)
    /\ (ctl.left = {} /\ ctl.todo = {}) => fs = CatalogRun(fs0)

CausalFix == CHOOSE d \in Descriptors : Fixes[d].old = <<Tab4, "hasCausal = true">>
TemporalFix == CHOOSE d \in Descriptors : Fixes[d].old = <<Tab4, "hasTemporal = true">>
Synthesizer == Fixes[CausalFix].file

\* C6's case: the hasTemporal descriptor has run before the hasCausal one, and
\* the unused-assignment call was made after the annotation call; both old
\* texts were in the file, and the file has changed.
C6_Witness ==
  /\ ctl.mode = "order"
  /\ Fixes[CausalFix].cat \notin ctl.left
  /\ Fixes[NFixes].cat \notin ctl.left
  /\ CausalFix \in ctl.todo
  /\ TemporalFix \notin ctl.todo
  /\ Contains(fs0[Synthesizer].text, Fixes[CausalFix].old)
  /\ Contains(fs0[Synthesizer].text, Fixes[TemporalFix].old)
  /\ fs[Synthesizer] # fs0[Synthesizer]

\* C7: a descriptor's execution is reported as fixed on the output stream if
\* and only if its target file existed and its content was changed.
C7_ReportedIffChanged ==
  [][ctl.mode = "main" => ((out' # out) <=> (fs' # fs))]_vars

\* The occurrences of old that a left-to-right scan takes: an occurrence is
\* taken unless it overlaps one taken before it.
Taken(s, old) ==
  LET f[i \in 0..Len(s)] ==
        IF i = 0 THEN {}
        ELSE IF MatchAt(s, i, old) /\ \A j \in f[i - 1] : j + Len(old) <= i
             THEN f[i - 1] \cup {i} ELSE f[i - 1]
  IN f[Len(s)]

RECURSIVE Concat(_)
Concat(ss) == IF ss = <<>> THEN <<>> ELSE Head(ss) \o Concat(Tail(ss))

\* s with each taken occurrence of old replaced by new, the rest as it is.
Replaced(s, old, new) ==
  LET t == Taken(s, old) IN
  Concat([i \in 1..Len(s) |->
            IF i \in t THEN new
            ELSE IF \E j \in t : j < i /\ i < j + Len(old) THEN <<>>
            ELSE <<s[i]>>])

ExampleFixed ==
  <<"m", "o", "d", "e", ":", " ", "0", "6", "0", "0", ",", " ",
    "d", "i", "r", ":", " ", "0", "6", "0", "0">>

ToMark(names, line) ==
  /\ \E i \in 1..Len(line) : line[i] \in Range(names)
  /\ \/ \E i \in 1..Len(line) : line[i] \in {FuncKw, VarKw}
     \/ \E i \in 1..(Len(line) - 1) : line[i] \in Range(names) /\ line[i + 1] = SP
  /\ \A i \in 1..Len(line) : line[i] \notin {NoLint, Marker}

\* The place in the output of line i of the input.
PlaceOf(names, lines, i) ==
  i + Cardinality({j \in 1..i : ToMark(names, lines[j])})

\* C9: one annotation pass inserts exactly one marker line immediately before
\* each line that is to be marked, however many names it holds; every other
\* line is emitted as it is, no marker goes anywhere else, and the lines keep
\* their order.
C9_AnnotatePass ==
  [][(Repeating /\ TheFix.kind = "annotate") =>
        LET names == TheFix.names
            a == ReadLines(TextOf(fs))
            b == ReadLines(TextOf(fs'))
        IN /\ Len(b) = Len(a) + Cardinality({j \in 1..Len(a) : ToMark(names, a[j])})
           /\ \A i \in 1..Len(a) :
                /\ b[PlaceOf(names, a, i)] = a[i]
                /\ ToMark(names, a[i]) => b[PlaceOf(names, a, i) - 1] = <<Marker, NL>>]_vars

\* C9's case: a pass has marked a file one of whose lines holds two target
\* names.
C9_Witness ==
  /\ Repeating
  /\ ctl.napp = 1
  /\ TheFix.kind = "annotate"
  /\ \E i \in 1..Len(ReadLines(TextOf(fs0))) :
       LET line == ReadLines(TextOf(fs0))[i] IN
       /\ ToMark(TheFix.names, line)
       /\ Cardinality(Range(line) \cap Range(TheFix.names)) >= 2
  /\ TextOf(fs) # TextOf(fs0)

\* C10: the second of the two descriptors that target synthesizer.go reads the
\* content the first wrote: after the first the file holds the first
\* replacement, after both it holds both, and a file that held both old texts
\* ends holding both new texts and neither old one.
C10_FreshRead ==
  (ctl.mode = "main" /\ fs0[Synthesizer].exists) =>
     LET c0 == fs0[Synthesizer].text
         c1 == Replace(c0, Fixes[CausalFix].old, Fixes[CausalFix].new)
         c2 == Replace(c1, Fixes[TemporalFix].old, Fixes[TemporalFix].new)
         c == fs[Synthesizer].text
     IN /\ ctl.next = TemporalFix => c = c1
        /\ ctl.next > TemporalFix =>
             /\ c = c2
             /\ (Contains(c0, Fixes[CausalFix].old) /\ Contains(c0, Fixes[TemporalFix].old)) =>
                  /\ Contains(c, Fixes[CausalFix].new)
                  /\ Contains(c, Fixes[TemporalFix].new)
                  /\ ~Contains(c, Fixes[CausalFix].old)
                  /\ ~Contains(c, Fixes[TemporalFix].old)

\* C10's case: a finished run on a synthesizer.go that held both old texts,
\* written twice.
C10_Witness ==
  /\ Done
  /\ fs0[Synthesizer].exists
  /\ Contains(fs0[Synthesizer].text, Fixes[CausalFix].old)
  /\ Contains(fs0[Synthesizer].text, Fixes[TemporalFix].old)
  /\ writes[Synthesizer] = 2
  /\ Contains(fs[Synthesizer].text, Fixes[CausalFix].new)
  /\ Contains(fs[Synthesizer].text, Fixes[TemporalFix].new)

====
